---- MODULE Spec2Model ----
(***************************************************************************)
(* State machine of the image organizer's application state layer.         *)
(*                                                                         *)
(* The repository holds two builds of the root component:                  *)
(*   "offline"  src/unnamed/part_000  (browser speech recognition,         *)
(*              multi-select, folder-creation-and-move)                    *)
(*   "live"     src/unnamed/part_001  (tool calls from the live assistant) *)
(* A run of the model is a run of one of them; the variable app says       *)
(* which.  Handlers that are the same code in both builds are one action.  *)
(*                                                                         *)
(* Strings are sequences of characters.  A command phrase ("create         *)
(* folder", "switch view", ...) is one character of the alphabet, so that  *)
(* includes / startsWith / replace / trim / toLowerCase are computed on    *)
(* sequences as the code computes them on strings.  Non-ASCII literals of  *)
(* the source are written in pinyin.                                       *)
(*                                                                         *)
(* Not modelled: the payload of an image (url, base64), the position of    *)
(* an OCR text, the locale, and the offline build's display mode (it is    *)
(* toggled freely and only hides the sidebar, so leaving it out changes    *)
(* no reachable application state).  The analysis of an upload is          *)
(* computed from the file name in the offline build, as its stub does,     *)
(* and drawn from a pool in the live build, which asks a remote service.   *)
(*                                                                         *)
(* The persistence effect runs in the step of the handler whose render     *)
(* it follows; storage holds what JSON.parse gives back for the string     *)
(* that was written.                                                       *)
(*                                                                         *)
(* Next is the whole program, every handler of either build, and Spec its  *)
(* runs from an empty store.  The properties are checked on parts of it:   *)
(*   SpecCore     the library of both builds: folders, search, gallery,    *)
(*                uploads, batch selection, voice commands and tool calls  *)
(*   SpecFlight   the same with the edits of the detail view, while an     *)
(*                upload is in flight                                      *)
(*   SpecLive     the live build                                           *)
(*   SpecView     the derived view                                         *)
(*   SpecVoice    the offline build's speech recognition objects and the   *)
(*                freeform dispatcher                                      *)
(*   SpecBoot     construction from a store with arbitrary content, and    *)
(*                page reloads                                             *)
(*                                                                         *)
(* The live assistant (its sessions, the tool calls of a message and       *)
(* their responses) is observed in SpecSession, and the autosave           *)
(* indicator with its timer in SpecSave, where time is explicit.  In the   *)
(* other specifications the assistant is never switched on and the         *)
(* indicator is left out: assistant and autosave keep their initial        *)
(* values there.                                                           *)
(***************************************************************************)
EXTENDS Integers, Sequences, FiniteSets, TLC

\* ------------------------------------------------------------------ bounds
MaxImages == 2
MaxFolders == 2
MaxClock == 2
MaxSessions == 2
MaxCalls == 3
MaxTimers == 3
MaxRecognitions == 2
MaxEdits == 1
MaxTexts == 4

\* ------------------------------------------------------------ string model
Null == <<>>
Undefined == <<"undefined">>

\* String.prototype.toLowerCase on one character: the Latin capitals, and
\* the command phrases written with capitals; every other character of the
\* alphabet (lower-case letters, digits, blanks, pinyin stand-ins of Chinese
\* text) has no lower-case form of its own
toLowerCaseChar(c) ==
  CASE c = "A" -> "a"
    [] c = "B" -> "b"
    [] c = "C" -> "c"
    [] c = "D" -> "d"
    [] c = "E" -> "e"
    [] c = "F" -> "f"
    [] c = "G" -> "g"
    [] c = "H" -> "h"
    [] c = "I" -> "i"
    [] c = "J" -> "j"
    [] c = "K" -> "k"
    [] c = "L" -> "l"
    [] c = "M" -> "m"
    [] c = "N" -> "n"
    [] c = "O" -> "o"
    [] c = "P" -> "p"
    [] c = "Q" -> "q"
    [] c = "R" -> "r"
    [] c = "S" -> "s"
    [] c = "T" -> "t"
    [] c = "U" -> "u"
    [] c = "V" -> "v"
    [] c = "W" -> "w"
    [] c = "X" -> "x"
    [] c = "Y" -> "y"
    [] c = "Z" -> "z"
    [] c = "Create Folder" -> "create folder"
    [] c = "Switch View" -> "switch view"
    [] c = "Switch Language" -> "switch language"
    [] OTHER -> c

toLowerCase(s) == [k \in 1..Len(s) |-> toLowerCaseChar(s[k])]

\* s.includes(q): q occurs in s as a contiguous run ("" occurs in every s)
includes(s, q) ==
  \E off \in 0..(Len(s) - Len(q)) : SubSeq(s, off + 1, off + Len(q)) = q

startsWith(s, q) == Len(q) <= Len(s) /\ SubSeq(s, 1, Len(q)) = q

RECURSIVE trimStart(_)
trimStart(s) == IF s # <<>> /\ Head(s) = " " THEN trimStart(Tail(s)) ELSE s

RECURSIVE trimEnd(_)
trimEnd(s) ==
  IF s # <<>> /\ s[Len(s)] = " " THEN trimEnd(SubSeq(s, 1, Len(s) - 1)) ELSE s

trim(s) == trimEnd(trimStart(s))

\* s.replace(/c/g, ""): every occurrence of the phrase c is removed
removeAll(s, c) == SelectSeq(s, LAMBDA x : x # c)

\* s.replace(/c/gi, ""): the same, ignoring case
removeAllIgnoreCase(s, c) ==
  SelectSeq(s, LAMBDA x : toLowerCaseChar(x) # toLowerCaseChar(c))

\* array helpers
arrayIncludes(arr, x) == \E k \in 1..Len(arr) : arr[k] = x
mapSeq(arr, F(_)) == [k \in 1..Len(arr) |-> F(arr[k])]

\* JavaScript truthiness of a string-or-null value
truthy(x) == x # Null /\ x # Undefined

\* args.key of a duck-typed argument mapping (a missing key reads undefined)
getArg(args, key) == IF key \in DOMAIN args THEN args[key] ELSE Undefined

\* --------------------------------------------------------------- ids, pools
AllId == <<"all">>
FolderId(t) == <<"folder", t>>
ImageId(t) == <<"img", t>>
Clock == 0..MaxClock

Apps == {"offline", "live"}

\* string literals of the source
QuanbuWenjian == <<"quanbu wenjian">>
AllFiles == <<"A", "l", "l", " ", "F", "i", "l", "e", "s">>
NewText == <<"N", "e", "w", " ", "T", "e", "x", "t">>
ChangguiWendang == <<"changgui wendang">>

\* names of the files the user picks
FileNames == { <<"a">> }

\* the id of the k-th text block of an analysis, and of a text added by hand
\* at the clock reading t.  The stub's ids `ocr-k-${Date.now()}` differ in k
\* within an image whatever the clock reads, and ids are compared within one
\* image only, so the reading is left out.
OcrId(k) == <<"ocr", k>>
ManualId(t) == <<"manual", t>>

\* analyzeImage of the offline build: the stub of the analysis service, which
\* looks at the lower-cased file name only (a Chinese character of a file
\* name is written as its syllable)
analyzeImage(fileName) ==
  LET name == toLowerCase(fileName)
      kind == IF \/ includes(name, <<"s", "c", "r", "e", "e", "n">>)
                 \/ includes(name, <<"jie", "tu">>)
                THEN "screenshot"
              ELSE IF \/ includes(name, <<"r", "e", "c", "e", "i", "p", "t">>)
                      \/ includes(name, <<"fa", "piao">>)
                      \/ includes(name, <<"shou", "ju">>)
                THEN "receipt"
              ELSE IF \/ includes(name, <<"n", "o", "t", "e">>)
                      \/ includes(name, <<"bi", "ji">>)
                THEN "note"
              ELSE "document"
      category == CASE kind = "screenshot" -> <<"pingmu jietu">>
                    [] kind = "receipt" -> <<"caiwu piaoju">>
                    [] kind = "note" -> <<"shouxie biji">>
                    [] OTHER -> ChangguiWendang
      description ==
        CASE kind = "screenshot" -> <<"jiance dao zhe shi yi zhang pingmu jietu, yi zidong guilei">>
          [] kind = "receipt" -> <<"jiance dao piaoju tezheng, jianyi baocun zhi caiwu wenjianjia">>
          [] kind = "note" -> <<"yi shibie wenzi neirong bing zhuanhuan wei ke bianji moshi">>
          [] OTHER -> <<"xitong yi zidong saomiao bing shibie gai bendi wenjian">>
  IN [category |-> category,
      description |-> description,
      texts |-> << [id |-> OcrId(1), text |-> category],
                   [id |-> OcrId(2), text |-> <<"dianji cichu bianji wenzi">>],
                   [id |-> OcrId(3), text |-> <<"bendi moshi yunxing zhong">>] >>]

\* results of the analysis service of the live build
RemoteAnalyses ==
  { [category |-> <<"B">>, description |-> <<"d">>,
     texts |-> << [id |-> OcrId(1), text |-> <<"c", "D">>] >>] }

\* what an analysis can resolve to, in either build
Analyses == RemoteAnalyses \cup { analyzeImage(fileName) : fileName \in FileNames }

\* the analyses the upload in flight can resolve to
analysesOf(a, fileName) ==
  IF a = "offline" THEN { analyzeImage(fileName) } ELSE RemoteAnalyses

\* what the user types into the search box and the fields of the detail
\* view
Queries == { <<>>, ChangguiWendang }
Titles == { <<"A", "b">> }
Categories == { <<"A", "b">> }
Texts == { <<"B">> }

\* transcripts delivered by the browser's speech recognition
Utterances ==
  { <<"create folder", " ", "T">>,
    <<" ", "Create Folder", "T", " ">>,
    <<"chuangjian wenjianjia", "T">>,
    <<"create folder", " ">>,
    <<"create folder", " ", "switch view">>,
    <<"switch view">>,
    <<"qiehuan yuyan">>,
    <<" ", "changgui wendang">> }

\* tool calls sent by the live assistant
ToolNames == {"create_folder", "search_items", "delete_universe"}
ToolArgs ==
  { [name |-> <<"T">>], [name |-> AllFiles],
    [query |-> ChangguiWendang],
    [volume |-> <<"a">>] }

\* ------------------------------------------------------- pure state updates
defaultState(a) ==
  [images |-> <<>>,
   folders |-> << [id |-> AllId,
                   name |-> IF a = "offline" THEN QuanbuWenjian
                                             ELSE AllFiles] >>,
   currentFolderId |-> AllId,
   searchQuery |-> <<>>]

\* a view whose search does not look at OCR texts
filteredImagesWithoutOcr(s) ==
  LET inFolder(img) == img.folderId = s.currentFolderId
      imgs == IF truthy(s.currentFolderId) /\ s.currentFolderId # AllId
                THEN SelectSeq(s.images, inFolder)
                ELSE s.images
      q == toLowerCase(s.searchQuery)
      matches(img) ==
        \/ includes(toLowerCase(img.name), q)
        \/ includes(toLowerCase(img.category), q)
        \/ (truthy(img.description) /\ includes(toLowerCase(img.description), q))
  IN IF truthy(s.searchQuery) THEN SelectSeq(imgs, matches) ELSE imgs

\* useMemo filteredImages
filteredImages(s) ==
  LET inFolder(img) == img.folderId = s.currentFolderId
      imgs == IF truthy(s.currentFolderId) /\ s.currentFolderId # AllId
                THEN SelectSeq(s.images, inFolder)
                ELSE s.images
      q == toLowerCase(s.searchQuery)
      matches(img) ==
        \/ includes(toLowerCase(img.name), q)
        \/ includes(toLowerCase(img.category), q)
        \/ (truthy(img.description) /\ includes(toLowerCase(img.description), q))
        \/ \E k \in 1..Len(img.ocrTexts) :
             includes(toLowerCase(img.ocrTexts[k].text), q)
  IN IF truthy(s.searchQuery) THEN SelectSeq(imgs, matches) ELSE imgs

\* useMemo selectedImage: the first image with the selected id, if any
hasSelectedImage(s, sel) == \E k \in 1..Len(s.images) : s.images[k].id = sel

\* the ids that handleCreateFolderAndMove's updater decides to move
idsToMove(prev, batch, sel) ==
  LET visible(img) ==
        /\ (prev.currentFolderId = AllId \/ img.folderId = prev.currentFolderId)
        /\ (~truthy(prev.searchQuery)
            \/ includes(toLowerCase(img.name), toLowerCase(prev.searchQuery)))
      currentImages == SelectSeq(prev.images, visible)
  IN IF Len(batch) > 0 THEN batch
     ELSE IF truthy(sel) THEN <<sel>>
     ELSE [k \in 1..Len(currentImages) |-> currentImages[k].id]

\* a create-and-move that puts the new folder first
createFolderAndMovePrepends(prev, newFolderId, folderName, batch, sel) ==
  LET ids == idsToMove(prev, batch, sel)
      move(img) == IF arrayIncludes(ids, img.id)
                     THEN [img EXCEPT !.folderId = newFolderId]
                     ELSE img
  IN [prev EXCEPT
        !.folders = <<[id |-> newFolderId, name |-> folderName]>> \o @,
        !.images = mapSeq(prev.images, move),
        !.currentFolderId = newFolderId]

\* a create-and-move that puts the moved images first
createFolderAndMoveReorders(prev, newFolderId, folderName, batch, sel) ==
  LET ids == idsToMove(prev, batch, sel)
      chosen(img) == arrayIncludes(ids, img.id)
      move(img) == [img EXCEPT !.folderId = newFolderId]
  IN [prev EXCEPT
        !.folders = Append(@, [id |-> newFolderId, name |-> folderName]),
        !.images = mapSeq(SelectSeq(prev.images, chosen), move)
                     \o SelectSeq(prev.images, LAMBDA img : ~chosen(img)),
        !.currentFolderId = newFolderId]

\* the updater of handleCreateFolderAndMove
createFolderAndMove(prev, newFolderId, folderName, batch, sel) ==
  LET ids == idsToMove(prev, batch, sel)
      move(img) == IF arrayIncludes(ids, img.id)
                     THEN [img EXCEPT !.folderId = newFolderId]
                     ELSE img
  IN [prev EXCEPT
        !.folders = Append(@, [id |-> newFolderId, name |-> folderName]),
        !.images = mapSeq(prev.images, move),
        !.currentFolderId = newFolderId]

\* a delete that keeps showing the deleted folder
deleteFolderKeepsCurrent(prev, id) ==
  [prev EXCEPT !.folders = SelectSeq(@, LAMBDA f : f.id # id)]

\* the updater of onDeleteFolder
deleteFolder(prev, id) ==
  [prev EXCEPT
     !.folders = SelectSeq(@, LAMBDA f : f.id # id),
     !.currentFolderId = IF prev.currentFolderId = id THEN AllId
                                                      ELSE prev.currentFolderId]

\* a handler whose create_folder does not look for an existing name
voiceCommandAlwaysCreates(prev, name, args, t) ==
  CASE name = "create_folder" ->
         [prev EXCEPT
            !.folders = Append(@, [id |-> FolderId(t),
                                   name |-> getArg(args, "name")])]
    [] name = "search_items" ->
         [prev EXCEPT !.searchQuery = getArg(args, "query"),
                      !.currentFolderId = AllId]
    [] OTHER -> prev

\* a handler that treats an unknown name as a search
voiceCommandUnknownSearches(prev, name, args, t) ==
  CASE name = "create_folder" ->
         IF \E k \in 1..Len(prev.folders) :
              prev.folders[k].name = getArg(args, "name")
           THEN prev
           ELSE [prev EXCEPT
                   !.folders = Append(@, [id |-> FolderId(t),
                                          name |-> getArg(args, "name")])]
    [] OTHER ->
         [prev EXCEPT !.searchQuery = getArg(args, "query"),
                      !.currentFolderId = AllId]

\* a handler whose search stays in the current folder
voiceCommandSearchInFolder(prev, name, args, t) ==
  CASE name = "create_folder" ->
         IF \E k \in 1..Len(prev.folders) :
              prev.folders[k].name = getArg(args, "name")
           THEN prev
           ELSE [prev EXCEPT
                   !.folders = Append(@, [id |-> FolderId(t),
                                          name |-> getArg(args, "name")])]
    [] name = "search_items" ->
         [prev EXCEPT !.searchQuery = getArg(args, "query")]
    [] OTHER -> prev

\* the updater of handleVoiceCommand; t is the reading of Date.now()
voiceCommand(prev, name, args, t) ==
  CASE name = "create_folder" ->
         IF \E k \in 1..Len(prev.folders) :
              prev.folders[k].name = getArg(args, "name")
           THEN prev
           ELSE [prev EXCEPT
                   !.folders = Append(@, [id |-> FolderId(t),
                                          name |-> getArg(args, "name")])]
    [] name = "search_items" ->
         [prev EXCEPT !.searchQuery = getArg(args, "query"),
                      !.currentFolderId = AllId]
    [] OTHER -> prev

\* a batch delete that removes only the first image of the batch
batchDeleteFirstOnly(prev, batch) ==
  [prev EXCEPT !.images = SelectSeq(@, LAMBDA img : img.id # batch[1])]

\* the updater of handleBatchDelete
batchDelete(prev, batch) ==
  [prev EXCEPT !.images = SelectSeq(@, LAMBDA img : ~arrayIncludes(batch, img.id))]

\* toggleBatchSelection's updater
toggleBatch(prev, id) ==
  IF arrayIncludes(prev, id) THEN SelectSeq(prev, LAMBDA i : i # id)
                             ELSE Append(prev, id)

\* -------------------------------------------------------------------- state
VARIABLES
  app,               \* which build runs
  state,             \* useState<AppState>
  filtered,          \* the memoized filteredImages of the last render
  selectedImageId,   \* useState<string | null>
  multiSelectMode,   \* useState(false), offline build
  batchSelectedIds,  \* useState<string[]>, offline build
  isAnalyzing,       \* useState(false)
  upload,            \* the upload in flight: what its callbacks closed over
  isListening,       \* useState(false), offline build
  recognition,       \* recognitionRef and the SpeechRecognition objects running
  now,               \* the last reading of Date.now()
  storage,           \* localStorage under LOCAL_STORAGE_KEY
  wrote,             \* history: the last handler's render ran the persistence effect
  assistant,         \* the LiveAssistant component and its sessions, live build
  autosave,          \* useState isSaving, saveTimeoutRef and the window's timers
  edits,             \* history: the number of edits made in the detail view
  lastOp             \* history: the handler that ran last and its argument

vars == << app, state, filtered, selectedImageId, multiSelectMode,
           batchSelectedIds, isAnalyzing, upload, isListening,
           recognition, now, storage, wrote, assistant, autosave, edits,
           lastOp >>

uiVars == << selectedImageId, multiSelectMode, batchSelectedIds >>
uploadVars == << isAnalyzing, upload >>
voiceVars == << isListening, recognition >>

IdleUpload == [pc |-> "idle", name |-> Null, folderId |-> Null, startedAt |-> 0]

\* The effect of part_000:108-147 builds a new SpeechRecognition object, and
\* stores it in recognitionRef.current, after every render in which
\* language changes or handleCreateFolderAndMove is a new function: whenever
\* selectedImageId changes or batchSelectedIds is set (to a new array).  The
\* object in recognitionRef.current therefore always holds the handler of
\* the current selection; an object that was started before keeps running
\* with the handler it was built with.  recognition.live holds the objects that were
\* started and have not ended, with what their onresult closed over;
\* recognition.ref is the position in it of recognitionRef.current, 0 when
\* that object is not running.
IdleRecognition == [ref |-> 0, live |-> <<>>]
RecognitionIds == 1..MaxRecognitions

NewRecognition == recognition' = [recognition EXCEPT !.ref = 0]

\* the selection changed in this step, or batchSelectedIds was set
SelectionEffect(batchSet) ==
  IF app = "offline" /\ (batchSet \/ selectedImageId' # selectedImageId)
    THEN NewRecognition
    ELSE UNCHANGED recognition

\* LiveAssistant before its button is pressed.  sessions holds the status of
\* every live session started so far, promises the state of its
\* sessionPromise, and sessionRef the index of the session in
\* sessionRef.current (0 for null); loop holds the function calls the for
\* loop of onmessage has still to handle, microtasks the callbacks queued
\* on a sessionPromise; getUserMedia counts the requests for the microphone
\* that have not been answered; calls counts the function calls received,
\* dispatched and responses record the calls of onCommand and of
\* sendToolResponse.
IdleAssistant ==
  [isActive |-> FALSE, isConnecting |-> FALSE, getUserMedia |-> 0,
   sessions |-> <<>>, promises |-> <<>>, sessionRef |-> 0,
   loop |-> <<>>, microtasks |-> <<>>, calls |-> 0,
   dispatched |-> <<>>, responses |-> <<>>]

\* the autosave indicator with no timer set.  timers holds the pending
\* timers of the window as records [id, left], left in ticks; issued counts
\* the timers set so far (window.setTimeout returns 1, 2, ...); sinceWrite
\* is the time since the last run of the persistence effect.
RestingAutosave ==
  [isSaving |-> FALSE, saveTimeoutRef |-> 0, timers |-> {}, issued |-> 0,
   sinceWrite |-> 0]

\* the history label of a handler; handlers that touch only local UI state
\* share the label "ui"
Op(name, arg) == name

\* JSON.stringify of an AppState as the tree JSON.parse gives back: a
\* property whose value is undefined is left out
stringifyFolder(f) == IF f.name = Undefined THEN [id |-> f.id] ELSE f

stringifyImage(img) ==
  IF img.folderId = Undefined
    THEN [id |-> img.id, name |-> img.name, category |-> img.category,
          description |-> img.description, ocrTexts |-> img.ocrTexts]
    ELSE img

stringify(s) ==
  LET images == [k \in 1..Len(s.images) |-> stringifyImage(s.images[k])]
      folders == [k \in 1..Len(s.folders) |-> stringifyFolder(s.folders[k])]
  IN CASE s.currentFolderId = Undefined /\ s.searchQuery = Undefined ->
            [images |-> images, folders |-> folders]
       [] s.currentFolderId = Undefined /\ s.searchQuery # Undefined ->
            [images |-> images, folders |-> folders,
             searchQuery |-> s.searchQuery]
       [] s.currentFolderId # Undefined /\ s.searchQuery = Undefined ->
            [images |-> images, folders |-> folders,
             currentFolderId |-> s.currentFolderId]
       [] OTHER ->
            [images |-> images, folders |-> folders,
             currentFolderId |-> s.currentFolderId,
             searchQuery |-> s.searchQuery]

\* a stored string that parses to the tree value
JsonBlob(value) == [kind |-> "json", value |-> value]

\* setState with a new object, the render it causes and the persistence
\* effect of that render
SetState(next) ==
  /\ state' = next
  /\ filtered' = filteredImages(next)
  /\ storage' = JsonBlob(stringify(next))
  /\ wrote' = TRUE

\* no setState, or an updater that returns prev: no render of a new state
KeepState ==
  /\ UNCHANGED << state, filtered, storage >>
  /\ wrote' = FALSE

Init ==
  /\ app \in Apps
  /\ state = defaultState(app)
  /\ filtered = filteredImages(state)
  /\ selectedImageId = Null
  /\ multiSelectMode = FALSE
  /\ batchSelectedIds = <<>>
  /\ isAnalyzing = FALSE
  /\ upload = IdleUpload
  /\ isListening = FALSE
  /\ recognition = IdleRecognition
  /\ now = 0
  /\ storage = JsonBlob(stringify(state))
  /\ wrote = TRUE
  /\ assistant = IdleAssistant
  /\ autosave = RestingAutosave
  /\ edits = 0
  /\ lastOp = Op("init", Null)

\* ------------------------------------------------------------------ sidebar
\* the ids of the folders the sidebar lists
FolderIds == { state.folders[k].id : k \in 1..Len(state.folders) }

\* Sidebar onSelect
SelectFolder(id) ==
  /\ id \in FolderIds
  /\ SetState([state EXCEPT !.currentFolderId = id])
  /\ IF app = "offline"
       THEN /\ selectedImageId' = Null
            /\ batchSelectedIds' = <<>>
            /\ multiSelectMode' = FALSE
       ELSE UNCHANGED uiVars
  /\ SelectionEffect(TRUE)
  /\ lastOp' = Op("ui", id)
  /\ UNCHANGED << app, assistant, autosave, edits, uploadVars, isListening, now >>

\* Sidebar onDeleteFolder; the button is rendered for every folder but "all"
DeleteFolder(id) ==
  /\ id \in FolderIds
  /\ id # AllId
  /\ SetState(deleteFolder(state, id))
  /\ lastOp' = Op(IF state.currentFolderId = id THEN "deleteCurrentFolder"
                                                ELSE "deleteFolder", id)
  /\ UNCHANGED << app, assistant, autosave, edits, uiVars, uploadVars, voiceVars, now >>

\* --------------------------------------------------------------- search box
SearchEdit(q) ==
  /\ SetState([state EXCEPT !.searchQuery = q])
  /\ lastOp' = Op("ui", q)
  /\ UNCHANGED << app, assistant, autosave, edits, uiVars, uploadVars, voiceVars, now >>

\* the clear button of the live build, rendered while the query is non-empty
ClearSearch ==
  /\ app = "live"
  /\ truthy(state.searchQuery)
  /\ SetState([state EXCEPT !.searchQuery = <<>>])
  /\ lastOp' = Op("ui", Null)
  /\ UNCHANGED << app, assistant, autosave, edits, uiVars, uploadVars, voiceVars, now >>

\* ------------------------------------------------------------------ gallery
SelectedImageShown == hasSelectedImage(state, selectedImageId)

\* a gallery whose items also open the image in multi-select mode
GalleryClickAlsoOpens(k) ==
  /\ ~SelectedImageShown
  /\ k \in 1..Len(filtered)
  /\ IF app = "offline" /\ multiSelectMode
       THEN /\ batchSelectedIds' = toggleBatch(batchSelectedIds, filtered[k].id)
            /\ selectedImageId' = filtered[k].id
       ELSE /\ selectedImageId' = filtered[k].id
            /\ UNCHANGED batchSelectedIds
  /\ SelectionEffect(multiSelectMode)
  /\ lastOp' = Op("ui", filtered[k].id)
  /\ KeepState
  /\ UNCHANGED << app, assistant, autosave, edits, multiSelectMode, uploadVars,
                  isListening, now >>

\* click on a gallery item (the gallery replaces the detail view)
GalleryClick(k) ==
  /\ ~SelectedImageShown
  /\ k \in 1..Len(filtered)
  /\ IF app = "offline" /\ multiSelectMode
       THEN /\ batchSelectedIds' = toggleBatch(batchSelectedIds, filtered[k].id)
            /\ UNCHANGED selectedImageId
       ELSE /\ selectedImageId' = filtered[k].id
            /\ UNCHANGED batchSelectedIds
  /\ SelectionEffect(multiSelectMode)
  /\ lastOp' = Op("ui", filtered[k].id)
  /\ KeepState
  /\ UNCHANGED << app, assistant, autosave, edits, multiSelectMode, uploadVars,
                  isListening, now >>

\* the back button of the detail view
Back ==
  /\ SelectedImageShown
  /\ selectedImageId' = Null
  /\ SelectionEffect(FALSE)
  /\ lastOp' = Op("ui", Null)
  /\ KeepState
  /\ UNCHANGED << app, assistant, autosave, edits, multiSelectMode, batchSelectedIds,
                  uploadVars, isListening, now >>

\* the select / cancel button of the offline build
ToggleMultiSelect ==
  /\ app = "offline"
  /\ ~truthy(selectedImageId)
  /\ multiSelectMode' = ~multiSelectMode
  /\ batchSelectedIds' = <<>>
  /\ NewRecognition
  /\ lastOp' = Op("ui", Null)
  /\ KeepState
  /\ UNCHANGED << app, assistant, autosave, edits, selectedImageId, uploadVars,
                  isListening, now >>

\* a batch delete that does not wait for the answer
BatchDeleteUnconfirmed(confirmed) ==
  /\ app = "offline"
  /\ multiSelectMode
  /\ Len(batchSelectedIds) > 0
  /\ SetState(batchDelete(state, batchSelectedIds))
  /\ batchSelectedIds' = <<>>
  /\ multiSelectMode' = FALSE
  /\ NewRecognition
  /\ lastOp' = Op(IF confirmed THEN "batchDelete" ELSE "batchDeleteDeclined",
                  batchSelectedIds)
  /\ UNCHANGED << app, assistant, autosave, edits, selectedImageId, uploadVars,
                  isListening, now >>

\* handleBatchDelete; confirmed is the answer to window.confirm
BatchDelete(confirmed) ==
  /\ app = "offline"
  /\ multiSelectMode
  /\ Len(batchSelectedIds) > 0
  /\ IF confirmed
       THEN /\ SetState(batchDelete(state, batchSelectedIds))
            /\ batchSelectedIds' = <<>>
            /\ multiSelectMode' = FALSE
            /\ NewRecognition
            /\ lastOp' = Op("batchDelete", batchSelectedIds)
       ELSE /\ KeepState
            /\ UNCHANGED << batchSelectedIds, multiSelectMode, recognition >>
            /\ lastOp' = Op("batchDeleteDeclined", batchSelectedIds)
  /\ UNCHANGED << app, assistant, autosave, edits, selectedImageId, uploadVars,
                  isListening, now >>

\* -------------------------------------------------------------- detail view
\* The handlers of the detail view change the images whose id is that of the
\* image shown.  A run makes at most MaxEdits such edits, and the overlay is
\* used on the first box of the image.
\* useMemo selectedImage, while there is one: the first image with the id
selectedImage ==
  state.images[CHOOSE k \in 1..Len(state.images) :
                 /\ state.images[k].id = selectedImageId
                 /\ \A h \in 1..(k - 1) : state.images[h].id # selectedImageId]

\* the ids of the boxes the user edits or removes
FirstBoxIds ==
  IF SelectedImageShown /\ Len(selectedImage.ocrTexts) > 0
    THEN { selectedImage.ocrTexts[1].id }
    ELSE {}

\* the updater of updateImageTitle
updateImageTitle(prev, id, newTitle) ==
  [prev EXCEPT !.images =
     [k \in 1..Len(prev.images) |->
        IF prev.images[k].id = id THEN [prev.images[k] EXCEPT !.name = newTitle]
                                  ELSE prev.images[k]]]

\* the updater of updateImageCategory
updateImageCategory(prev, id, newCategory) ==
  [prev EXCEPT !.images =
     [k \in 1..Len(prev.images) |->
        IF prev.images[k].id = id
          THEN [prev.images[k] EXCEPT !.category = newCategory]
          ELSE prev.images[k]]]

\* the updater of the overlay's onUpdateText
updateText(prev, id, tid, txt) ==
  [prev EXCEPT !.images =
     [k \in 1..Len(prev.images) |->
        IF prev.images[k].id = id
          THEN [prev.images[k] EXCEPT !.ocrTexts =
                  [j \in 1..Len(@) |->
                     IF @[j].id = tid THEN [@[j] EXCEPT !.text = txt] ELSE @[j]]]
          ELSE prev.images[k]]]

\* the updater of the overlay's onRemoveText
removeText(prev, id, tid) ==
  [prev EXCEPT !.images =
     [k \in 1..Len(prev.images) |->
        IF prev.images[k].id = id
          THEN [prev.images[k] EXCEPT !.ocrTexts =
                  SelectSeq(@, LAMBDA ocr : ocr.id # tid)]
          ELSE prev.images[k]]]

\* the updater of the overlay's onAddText
addText(prev, id, newText) ==
  [prev EXCEPT !.images =
     [k \in 1..Len(prev.images) |->
        IF prev.images[k].id = id
          THEN [prev.images[k] EXCEPT !.ocrTexts = Append(@, newText)]
          ELSE prev.images[k]]]

\* what an edit of the detail view leaves alone
EditFrame ==
  /\ SelectedImageShown
  /\ edits < MaxEdits
  /\ edits' = edits + 1
  /\ lastOp' = Op("edit", selectedImageId)
  /\ UNCHANGED << app, assistant, autosave, uiVars, uploadVars, voiceVars >>

\* the title field of the detail view
UpdateImageTitle(newTitle) ==
  /\ EditFrame
  /\ SetState(updateImageTitle(state, selectedImage.id, newTitle))
  /\ UNCHANGED now

\* the classification field of the detail view
UpdateImageCategory(newCategory) ==
  /\ EditFrame
  /\ SetState(updateImageCategory(state, selectedImage.id, newCategory))
  /\ UNCHANGED now

\* ImageOverlay onUpdateText: the input of the box tid
UpdateText(tid, txt) ==
  /\ EditFrame
  /\ \E j \in 1..Len(selectedImage.ocrTexts) : selectedImage.ocrTexts[j].id = tid
  /\ SetState(updateText(state, selectedImage.id, tid, txt))
  /\ UNCHANGED now

\* ImageOverlay onRemoveText: the remove button of the box tid
RemoveText(tid) ==
  /\ EditFrame
  /\ \E j \in 1..Len(selectedImage.ocrTexts) : selectedImage.ocrTexts[j].id = tid
  /\ SetState(removeText(state, selectedImage.id, tid))
  /\ UNCHANGED now

\* ImageOverlay onAddText: a click on the image; t is the reading of
\* Date.now() that names the new box
AddText(t) ==
  /\ EditFrame
  /\ Len(selectedImage.ocrTexts) < MaxTexts
  /\ t >= now
  /\ now' = t
  /\ SetState(addText(state, selectedImage.id,
                      [id |-> ManualId(t), text |-> NewText]))

\* ------------------------------------------------------------------- upload
\* a file input that is not disabled while an analysis runs
UploadStartWhileAnalyzing(fileName) ==
  /\ Len(state.images) < MaxImages
  /\ app = "offline" => now < MaxClock
  /\ isAnalyzing' = TRUE
  /\ upload' = [pc |-> "inflight", name |-> fileName,
                folderId |-> IF app = "offline"
                               THEN (IF state.currentFolderId = AllId
                                       THEN AllId ELSE state.currentFolderId)
                               ELSE AllId,
                startedAt |-> IF app = "offline" THEN now ELSE 0]
  /\ lastOp' = Op("ui", fileName)
  /\ KeepState
  /\ UNCHANGED << app, assistant, autosave, edits, uiVars, voiceVars, now >>

\* handleFileUpload up to reader.readAsDataURL; the input is disabled while
\* isAnalyzing.  The offline build's onload closes over the rendered state.
UploadStart(fileName) ==
  /\ ~isAnalyzing
  /\ Len(state.images) < MaxImages
  /\ app = "offline" => now < MaxClock
  /\ isAnalyzing' = TRUE
  /\ upload' = [pc |-> "inflight", name |-> fileName,
                folderId |-> IF app = "offline"
                               THEN (IF state.currentFolderId = AllId
                                       THEN AllId ELSE state.currentFolderId)
                               ELSE AllId,
                startedAt |-> IF app = "offline" THEN now ELSE 0]
  /\ lastOp' = Op("ui", fileName)
  /\ KeepState
  /\ UNCHANGED << app, assistant, autosave, edits, uiVars, voiceVars, now >>

newItem(t, analysis) ==
  [id |-> ImageId(t),
   name |-> upload.name,
   category |-> analysis.category,
   description |-> analysis.description,
   ocrTexts |-> analysis.texts,
   folderId |-> upload.folderId]

\* a completion that also resets the view to show the new image
UploadSuccessResetsView(analysis, t) ==
  /\ upload.pc = "inflight"
  /\ analysis \in analysesOf(app, upload.name)
  /\ t >= now
  /\ app = "offline" => t > upload.startedAt
  /\ SetState([state EXCEPT !.images = <<newItem(t, analysis)>> \o @,
                            !.searchQuery = <<>>])
  /\ isAnalyzing' = FALSE
  /\ upload' = IdleUpload
  /\ now' = t
  /\ lastOp' = Op("uploadSuccess", ImageId(t))
  /\ UNCHANGED << app, assistant, autosave, edits, uiVars, voiceVars >>

\* reader.onload with a resolved analysis.  The offline build's analyzeImage
\* resolves after a timer of one second, so its Date.now() is later
\* than every reading taken before the upload started.
UploadSuccess(analysis, t) ==
  /\ upload.pc = "inflight"
  /\ analysis \in analysesOf(app, upload.name)
  /\ t >= now
  /\ app = "offline" => t > upload.startedAt
  /\ SetState([state EXCEPT !.images = <<newItem(t, analysis)>> \o @])
  /\ isAnalyzing' = FALSE
  /\ upload' = IdleUpload
  /\ now' = t
  /\ lastOp' = Op("uploadSuccess", ImageId(t))
  /\ UNCHANGED << app, assistant, autosave, edits, uiVars, voiceVars >>

\* reader.onload with a rejected analysis: the live build catches it
UploadAnalysisFail ==
  /\ app = "live"
  /\ upload.pc = "inflight"
  /\ isAnalyzing' = FALSE
  /\ upload' = IdleUpload
  /\ lastOp' = Op("uploadAnalysisFail", Null)
  /\ KeepState
  /\ UNCHANGED << app, assistant, autosave, edits, uiVars, voiceVars, now >>

\* the file cannot be read: onload never runs (no onerror handler is set)
UploadReadFail ==
  /\ upload.pc = "inflight"
  /\ upload' = IdleUpload
  /\ lastOp' = Op("uploadReadFail", Null)
  /\ KeepState
  /\ UNCHANGED << app, assistant, autosave, edits, uiVars, isAnalyzing, voiceVars, now >>

\* -------------------------------------------------- offline voice commands
\* toggleListening: stop() while listening; start() otherwise, which throws
\* InvalidStateError on an object that is already running
ToggleListening ==
  /\ app = "offline"
  /\ IF ~isListening /\ recognition.ref = 0
       THEN /\ Len(recognition.live) < MaxRecognitions
            /\ recognition' =
                 [ref |-> Len(recognition.live) + 1,
                  live |-> Append(recognition.live,
                                  [pc |-> "starting",
                                   batchSelectedIds |-> batchSelectedIds,
                                   selectedImageId |-> selectedImageId])]
       ELSE UNCHANGED recognition
  /\ lastOp' = Op("ui", Null)
  /\ KeepState
  /\ UNCHANGED << app, assistant, autosave, edits, uiVars, uploadVars, isListening, now >>

\* the language button: setLanguage, after which the effect builds a new
\* object for recognitionRef.current
ToggleLanguage ==
  /\ app = "offline"
  /\ NewRecognition
  /\ lastOp' = Op("ui", Null)
  /\ KeepState
  /\ UNCHANGED << app, assistant, autosave, edits, uiVars, uploadVars, isListening, now >>

\* recognition.onstart of the i-th running object
OnStart(i) ==
  /\ i <= Len(recognition.live)
  /\ recognition.live[i].pc = "starting"
  /\ isListening' = TRUE
  /\ recognition' = [recognition EXCEPT !.live[i].pc = "started"]
  /\ lastOp' = Op("voiceStart", Null)
  /\ KeepState
  /\ UNCHANGED << app, assistant, autosave, edits, uiVars, uploadVars, now >>

isSwitchView(transcript) ==
  includes(transcript, <<"qiehuan shitu">>) \/ includes(transcript, <<"switch view">>)

isSwitchLanguage(transcript) ==
  includes(transcript, <<"qiehuan yuyan">>) \/ includes(transcript, <<"switch language">>)

isCreateFolder(transcript) ==
  \/ startsWith(transcript, <<"chuangjian wenjianjia">>)
  \/ startsWith(toLowerCase(transcript), <<"create folder">>)

folderNameOf(transcript) ==
  trim(removeAllIgnoreCase(removeAll(transcript, "chuangjian wenjianjia"),
                           "create folder"))

\* a running object that has delivered its result
Delivered == [pc |-> "delivered", batchSelectedIds |-> <<>>, selectedImageId |-> Null]

\* handleCreateFolderAndMove as the running object r calls it from onresult
HandleCreateFolderAndMove(r, folderName, t) ==
  /\ Len(state.folders) <= MaxFolders
  /\ t >= now
  /\ now' = t
  /\ SetState(createFolderAndMove(state, FolderId(t), folderName,
                                  r.batchSelectedIds, r.selectedImageId))
  /\ batchSelectedIds' = <<>>
  /\ multiSelectMode' = FALSE
  /\ selectedImageId' = Null
  /\ lastOp' = Op("createFolderAndMove", FolderId(t))

\* recognition.onresult of the i-th running object.  setLanguage and the
\* setBatchSelectedIds([]) of handleCreateFolderAndMove make the effect
\* build a new object for recognitionRef.current.  The object is not
\* continuous: it delivers one result, after which what its handler closed
\* over is never read again.
VoiceResult(i, utterance, t) ==
  /\ app = "offline"
  /\ i <= Len(recognition.live)
  /\ recognition.live[i].pc = "started"
  /\ LET transcript == trim(utterance)
         delivered == [recognition EXCEPT !.live[i] = Delivered]
     IN
       IF isSwitchView(transcript)
         THEN /\ t = now
              /\ lastOp' = Op("voiceSwitchView", transcript)
              /\ KeepState
              /\ recognition' = delivered
              /\ UNCHANGED << uiVars, now >>
       ELSE IF isSwitchLanguage(transcript)
         THEN /\ t = now
              /\ lastOp' = Op("voiceSwitchLanguage", transcript)
              /\ KeepState
              /\ recognition' = [delivered EXCEPT !.ref = 0]
              /\ UNCHANGED << uiVars, now >>
       ELSE IF isCreateFolder(transcript)
         THEN IF truthy(folderNameOf(transcript))
                THEN /\ HandleCreateFolderAndMove(recognition.live[i],
                                                  folderNameOf(transcript), t)
                     /\ recognition' = [delivered EXCEPT !.ref = 0]
                ELSE /\ t = now
                     /\ lastOp' = Op("voiceCreateFolderNoName", transcript)
                     /\ KeepState
                     /\ recognition' = delivered
                     /\ UNCHANGED << uiVars, now >>
       ELSE /\ t = now
            /\ SetState([state EXCEPT !.searchQuery = transcript])
            /\ lastOp' = Op("voiceSearch", transcript)
            /\ recognition' = delivered
            /\ UNCHANGED << uiVars, now >>
  /\ UNCHANGED << app, assistant, autosave, edits, uploadVars, isListening >>

\* the sequence without its i-th element
removeAt(seq, i) == SubSeq(seq, 1, i - 1) \o SubSeq(seq, i + 1, Len(seq))

\* a running object that has reported an error
Errored == [pc |-> "errored", batchSelectedIds |-> <<>>, selectedImageId |-> Null]

\* recognition.onerror of the i-th running object.  The browser reports an
\* error once, at any time before the end of the object, and delivers
\* nothing but the end after it.
VoiceError(i) ==
  /\ i <= Len(recognition.live)
  /\ recognition.live[i].pc # "errored"
  /\ isListening' = FALSE
  /\ recognition' = [recognition EXCEPT !.live[i] = Errored]
  /\ lastOp' = Op("voiceError", Null)
  /\ KeepState
  /\ UNCHANGED << app, assistant, autosave, edits, uiVars, uploadVars, now >>

\* recognition.onend of the i-th running object: the last event of the
\* object, after its result, after its error, or after stop()
VoiceEnd(i) ==
  /\ i <= Len(recognition.live)
  /\ isListening' = FALSE
  /\ recognition' =
       [ref |-> IF recognition.ref = i THEN 0
                ELSE IF recognition.ref > i THEN recognition.ref - 1
                ELSE recognition.ref,
        live |-> removeAt(recognition.live, i)]
  /\ lastOp' = Op("voiceEnd", Null)
  /\ KeepState
  /\ UNCHANGED << app, assistant, autosave, edits, uiVars, uploadVars, now >>

\* ------------------------------------------------------ live tool calls
\* handleVoiceCommand and the render that applies its updater; t is the
\* reading of Date.now() in the updater
handleVoiceCommand(name, args, t) ==
  /\ app = "live"
  /\ t >= now
  /\ LET next == voiceCommand(state, name, args, t)
         creates == Len(next.folders) > Len(state.folders)
     IN /\ creates => Len(state.folders) <= MaxFolders
        /\ now' = IF creates THEN t ELSE now
        /\ ~creates => t = now
        /\ IF next = state /\ name # "search_items"
             THEN KeepState
             ELSE SetState(next)
        /\ selectedImageId' = IF name = "search_items" THEN Null ELSE selectedImageId
        /\ lastOp' = Op(IF name = "create_folder" /\ ~creates
                           THEN "create_folder:exists" ELSE name, args)
  /\ UNCHANGED << app, autosave, edits, multiSelectMode, batchSelectedIds,
                  uploadVars, voiceVars >>

\* one function call as the application sees it: onCommand(name, args)
ToolCall(name, args, t) ==
  /\ handleVoiceCommand(name, args, t)
  /\ UNCHANGED assistant

\* -------------------------------------------------------------- transitions
\* folders, search and gallery: handlers both builds have
Browse ==
  \/ \E id \in FolderIds : SelectFolder(id)
  \/ \E id \in FolderIds : DeleteFolder(id)
  \/ \E q \in Queries : SearchEdit(q)
  \/ \E k \in 1..MaxImages : GalleryClick(k)
  \/ Back

Uploads ==
  \/ \E fileName \in FileNames : UploadStart(fileName)
  \/ \E analysis \in Analyses, t \in Clock : UploadSuccess(analysis, t)
  \/ UploadReadFail

Detail ==
  \/ \E newTitle \in Titles : UpdateImageTitle(newTitle)
  \/ \E newCategory \in Categories : UpdateImageCategory(newCategory)
  \/ \E tid \in FirstBoxIds, txt \in Texts : UpdateText(tid, txt)
  \/ \E tid \in FirstBoxIds : RemoveText(tid)
  \/ AddText(now)

Shared == Browse \/ Uploads \/ Detail

BatchSelection ==
  \/ ToggleMultiSelect
  \/ \E confirmed \in BOOLEAN : BatchDelete(confirmed)

Voice ==
  \/ ToggleListening
  \/ ToggleLanguage
  \/ \E i \in RecognitionIds : OnStart(i)
  \/ \E i \in RecognitionIds, utterance \in Utterances, t \in Clock :
       VoiceResult(i, utterance, t)
  \/ \E i \in RecognitionIds : VoiceError(i)
  \/ \E i \in RecognitionIds : VoiceEnd(i)

OfflineOnly == BatchSelection \/ Voice

LiveOnly ==
  \/ ClearSearch
  \/ UploadAnalysisFail
  \/ \E name \in ToolNames, args \in ToolArgs, t \in Clock : ToolCall(name, args, t)

\* the whole program: every handler of either build
Next == Shared \/ OfflineOnly \/ LiveOnly

Spec == Init /\ [][Next]_vars

\* ------------------------------------------------------- the library alone
\* Both builds without the detail view's edits, with transcripts that reach
\* every branch of the dispatcher once, and with a user who starts a
\* recognition only when none is running.  A recognition ends here without
\* reporting an error: the error changes isListening and nothing else,
\* and an object that ends without a result is already among the runs.
CoreUtterances ==
  { <<"create folder", " ", "T">>,
    <<" ", "Create Folder", "T", " ">>,
    <<"create folder", " ">>,
    <<"switch view">>,
    <<"qiehuan yuyan">>,
    <<" ", "changgui wendang">> }

VoiceInTurn ==
  \/ recognition.live = <<>> /\ ToggleListening
  \/ ToggleLanguage
  \/ OnStart(1)
  \/ \E utterance \in CoreUtterances, t \in Clock : VoiceResult(1, utterance, t)
  \/ VoiceEnd(1)

NextCore == Browse \/ Uploads \/ BatchSelection \/ VoiceInTurn \/ LiveOnly

SpecCore == Init /\ [][NextCore]_vars

\* ------------------------------------------------ uploads in flight
\* Both builds, with the user and the voice collaborator acting only while
\* an upload is in flight.
InFlight == upload.pc # "idle"

NextFlight ==
  \/ Uploads
  \/ InFlight /\ (Browse \/ Detail \/ BatchSelection \/ VoiceInTurn \/ LiveOnly)

SpecFlight == Init /\ [][NextFlight]_vars

\* the live build alone
InitLive == Init /\ app = "live"
NextLive == Shared \/ LiveOnly
SpecLive == InitLive /\ [][NextLive]_vars

\* ------------------------------------------------- the derived view alone
\* A state of the offline build with up to MaxImages images whose fields
\* are drawn independently, then search edits and folder selections.
ViewFolder == FolderId(1)

ViewContents ==
  { [name |-> <<"x">>, category |-> <<"x">>, description |-> <<>>, ocrTexts |-> <<>>],
    [name |-> <<"A", "b">>, category |-> <<"x">>, description |-> <<>>, ocrTexts |-> <<>>],
    [name |-> <<"x">>, category |-> <<"C">>, description |-> <<>>, ocrTexts |-> <<>>],
    [name |-> <<"x">>, category |-> <<"x">>, description |-> <<"d", "E">>, ocrTexts |-> <<>>],
    [name |-> <<"x">>, category |-> <<"x">>, description |-> <<>>,
     ocrTexts |-> << [id |-> OcrId(1), text |-> <<"x">>],
                   [id |-> OcrId(2), text |-> <<"F", "g">>] >>],
    [name |-> <<"A", "b">>, category |-> <<"C">>, description |-> <<"d", "E">>,
     ocrTexts |-> << [id |-> OcrId(1), text |-> <<"F", "g">>] >>] }

ViewQueries ==
  { <<>>, <<"a", "B">>, <<"b">>, <<"c">>, <<"D", "e">>, <<"g">>, <<"f", "G">>,
    <<"b", "c">>, <<"z">> }

ViewImage(k, content, folderId) ==
  [id |-> ImageId(k), name |-> content.name, category |-> content.category,
   description |-> content.description, ocrTexts |-> content.ocrTexts,
   folderId |-> folderId]

ViewStates ==
  { [images |-> [k \in 1..n |-> ViewImage(n + 1 - k, c[k], f[k])],
     folders |-> Append(defaultState("offline").folders,
                        [id |-> ViewFolder, name |-> <<"T">>]),
     currentFolderId |-> cur,
     searchQuery |-> <<>>] :
      n \in 0..MaxImages,
      c \in [1..MaxImages -> ViewContents],
      f \in [1..MaxImages -> {AllId, ViewFolder}],
      cur \in {AllId, ViewFolder} }

InitView ==
  /\ app = "offline"
  /\ state \in ViewStates
  /\ filtered = filteredImages(state)
  /\ selectedImageId = Null
  /\ multiSelectMode = FALSE
  /\ batchSelectedIds = <<>>
  /\ isAnalyzing = FALSE
  /\ upload = IdleUpload
  /\ isListening = FALSE
  /\ recognition = IdleRecognition
  /\ now = MaxImages
  /\ storage = JsonBlob(stringify(state))
  /\ wrote = TRUE
  /\ assistant = IdleAssistant
  /\ autosave = RestingAutosave
  /\ edits = 0
  /\ lastOp = Op("init", Null)

NextView ==
  \/ \E q \in ViewQueries : SearchEdit(q)
  \/ \E id \in FolderIds : SelectFolder(id)

SpecView == InitView /\ [][NextView]_vars

\* --------------------------------------------------- startup and restart
\* what localStorage.getItem can return at startup: nothing, the empty
\* string, a string that is not JSON, and JSON texts
AbsentBlob == [kind |-> "absent", value |-> Null]
EmptyBlob == [kind |-> "empty", value |-> Null]
GarbageBlob == [kind |-> "garbage", value |-> Null]
JsonNullBlob == [kind |-> "null", value |-> Null]

\* a tree the application wrote in an earlier session
SavedState(a) ==
  [images |-> << [id |-> ImageId(0), name |-> <<"a">>, category |-> <<"B">>,
                  description |-> <<"d">>,
                  ocrTexts |-> << [id |-> OcrId(1), text |-> <<"c", "D">>] >>,
                  folderId |-> FolderId(0)] >>,
   folders |-> Append(defaultState(a).folders,
                      [id |-> FolderId(0), name |-> <<"T">>]),
   currentFolderId |-> FolderId(0),
   searchQuery |-> <<"B">>]

\* a tree of an earlier version of the application, which stored neither
\* the current folder nor the search query
LegacyState(a) ==
  [images |-> << [id |-> ImageId(0), name |-> <<"a">>, category |-> <<"B">>,
                  description |-> <<"d">>,
                  ocrTexts |-> << [id |-> OcrId(1), text |-> <<"c", "D">>] >>,
                  folderId |-> AllId] >>,
   folders |-> defaultState(a).folders]

StoredBlobs(a) ==
  { AbsentBlob, EmptyBlob, GarbageBlob, JsonNullBlob,
    JsonBlob([images |-> <<>>]),
    JsonBlob(LegacyState(a)),
    JsonBlob(stringify(defaultState(a))),
    JsonBlob(stringify(SavedState(a))) }

\* the initializer of useState<AppState>: JSON.parse of a truthy saved
\* string, the default tree when there is none or when JSON.parse throws
initialState(a, saved) ==
  CASE saved.kind \in {"absent", "empty"} -> defaultState(a)
    [] saved.kind = "garbage" -> defaultState(a)
    [] saved.kind = "null" -> Null
    [] OTHER -> saved.value

\* the first render reads state.images.find and folders.map
renders(value) == {"images", "folders"} \subseteq DOMAIN value

\* a parsed tree as the program reads it: a missing property reads undefined
readFolder(f) ==
  [id |-> f.id, name |-> IF "name" \in DOMAIN f THEN f.name ELSE Undefined]

readImage(img) ==
  [id |-> img.id, name |-> img.name, category |-> img.category,
   description |-> img.description, ocrTexts |-> img.ocrTexts,
   folderId |-> IF "folderId" \in DOMAIN img THEN img.folderId ELSE Undefined]

hydrate(value) ==
  [images |-> [k \in 1..Len(value.images) |-> readImage(value.images[k])],
   folders |-> [k \in 1..Len(value.folders) |-> readFolder(value.folders[k])],
   currentFolderId |-> IF "currentFolderId" \in DOMAIN value
                         THEN value.currentFolderId ELSE Undefined,
   searchQuery |-> IF "searchQuery" \in DOMAIN value
                     THEN value.searchQuery ELSE Undefined]

Booting == lastOp = "boot"
Running == lastOp \notin {"boot", "fatal"}

\* construction of App, its first render and the effects of that render;
\* a render that throws unmounts the application
Mount ==
  /\ Booting
  /\ LET initial == initialState(app, storage) IN
       IF renders(initial)
         THEN /\ SetState(hydrate(initial))
              /\ lastOp' = Op("init", Null)
         ELSE /\ state' = initial
              /\ UNCHANGED << filtered, storage >>
              /\ wrote' = FALSE
              /\ lastOp' = Op("fatal", Null)
  /\ UNCHANGED << app, assistant, autosave, edits, uiVars, uploadVars, voiceVars, now >>

\* the page is reloaded: only localStorage and the clock survive
Restart ==
  /\ ~Booting
  /\ state' = Null
  /\ filtered' = <<>>
  /\ selectedImageId' = Null
  /\ multiSelectMode' = FALSE
  /\ batchSelectedIds' = <<>>
  /\ isAnalyzing' = FALSE
  /\ upload' = IdleUpload
  /\ isListening' = FALSE
  /\ recognition' = IdleRecognition
  /\ wrote' = FALSE
  /\ lastOp' = Op("boot", Null)
  /\ UNCHANGED << app, assistant, autosave, edits, storage, now >>

InitBoot ==
  /\ app \in Apps
  /\ storage \in StoredBlobs(app)
  /\ state = Null
  /\ filtered = <<>>
  /\ selectedImageId = Null
  /\ multiSelectMode = FALSE
  /\ batchSelectedIds = <<>>
  /\ isAnalyzing = FALSE
  /\ upload = IdleUpload
  /\ isListening = FALSE
  /\ recognition = IdleRecognition
  /\ now = 0
  /\ wrote = FALSE
  /\ assistant = IdleAssistant
  /\ autosave = RestingAutosave
  /\ edits = 0
  /\ lastOp = Op("boot", Null)

NextBoot ==
  \/ Mount
  \/ Restart
  \/ Running /\ \E id \in FolderIds : SelectFolder(id)
  \/ Running /\ \E id \in FolderIds : DeleteFolder(id)
  \/ Running /\ \E q \in Queries : SearchEdit(q)
  \/ Running /\ \E fileName \in FileNames : UploadStart(fileName)
  \/ Running /\ \E analysis \in Analyses, t \in Clock : UploadSuccess(analysis, t)
  \/ Running /\ \E name \in ToolNames, args \in ToolArgs, t \in Clock :
                  ToolCall(name, args, t)

SpecBoot == InitBoot /\ [][NextBoot]_vars

\* ------------------------------------------- the freeform dispatcher alone
\* The offline build over the trees of the derived-view specification whose
\* images have neither description nor texts, with transcripts that carry
\* more than one command phrase.
InitVoice ==
  /\ InitView
  /\ \A k \in 1..Len(state.images) :
       state.images[k].description = <<>> /\ state.images[k].ocrTexts = <<>>

DispatchUtterances ==
  { <<"create folder", " ", "switch view">>,
    <<"create folder", " ", "Switch View">>,
    <<"chuangjian wenjianjia", "qiehuan yuyan">>,
    <<"switch view", " ", "switch language">>,
    <<"T", " ", "create folder">>,
    <<"create folder", " ", "T">>,
    <<"b">> }

NextVoice ==
  \/ ToggleListening
  \/ ToggleLanguage
  \/ \E i \in RecognitionIds : OnStart(i)
  \/ \E i \in RecognitionIds, utterance \in DispatchUtterances, t \in Clock :
       VoiceResult(i, utterance, t)
  \/ \E i \in RecognitionIds : VoiceError(i)
  \/ \E i \in RecognitionIds : VoiceEnd(i)
  \/ \E k \in 1..MaxImages : GalleryClick(k)
  \/ Back

SpecVoice == InitVoice /\ [][NextVoice]_vars

\* ------------------------------------------------------ the voice sessions
\* The live assistant's session object comes from startLiveSession
\* (src/components/ImageOverlay.tsx:127-144), which hands the callbacks to
\* ai.live.connect of the SDK and returns its promise; what the session
\* does is not in the sources.  It is taken as the specification's voice
\* collaborator: a session that is connecting, open, closing (close() was
\* called) or closed; it delivers messages while it is open, and reports
\* the end of an open or closing session once, through onclose or onerror.
\* The promise startLiveSession returns is settled once: it is rejected
\* when the connection fails, and resolved with the session otherwise,
\* before or after the collaborator calls onopen.  A handler and the
\* microtasks that can run after it run to completion before the next
\* event is delivered.

\* the function calls of one message of the collaborator
ToolMessages ==
  { << [name |-> "create_folder", args |-> [name |-> <<"T">>]] >>,
    << [name |-> "create_folder", args |-> [name |-> <<"T">>]],
       [name |-> "create_folder", args |-> [name |-> <<"U">>]] >>,
    << [name |-> "delete_universe", args |-> [volume |-> <<"a">>]],
       [name |-> "search_items", args |-> [query |-> <<"B">>]] >> }

\* the callbacks queued on a sessionPromise that is resolved
Runnable ==
  { k \in 1..Len(assistant.microtasks) :
      assistant.promises[assistant.microtasks[k].session] = "resolved" }

\* no handler of the assistant is running and no microtask can run
Quiet == assistant.loop = <<>> /\ Runnable = {}

SessionIds == 1..MaxSessions

\* what the application leaves alone while the assistant's own state changes
AssistantFrame ==
  /\ KeepState
  /\ UNCHANGED << app, autosave, edits, uiVars, uploadVars, voiceVars, now >>

\* handleToggle while inactive, up to the await of getUserMedia; the button
\* is disabled while connecting
ToggleOn ==
  /\ app = "live"
  /\ Quiet
  /\ ~assistant.isActive
  /\ ~assistant.isConnecting
  /\ Len(assistant.sessions) + assistant.getUserMedia < MaxSessions
  /\ assistant' = [assistant EXCEPT !.isConnecting = TRUE,
                                    !.getUserMedia = @ + 1]
  /\ lastOp' = Op("toggleOn", Null)
  /\ AssistantFrame

\* getUserMedia resolves: handleToggle goes on to startLiveSession
MediaGranted ==
  /\ Quiet
  /\ assistant.getUserMedia > 0
  /\ assistant' = [assistant EXCEPT !.getUserMedia = @ - 1,
                                    !.sessions = Append(@, "connecting"),
                                    !.promises = Append(@, "pending")]
  /\ lastOp' = Op("mediaGranted", Null)
  /\ AssistantFrame

\* getUserMedia rejects: the catch of handleToggle, no session was started
MediaDenied ==
  /\ Quiet
  /\ assistant.getUserMedia > 0
  /\ assistant' = [assistant EXCEPT !.getUserMedia = @ - 1,
                                    !.isConnecting = FALSE]
  /\ lastOp' = Op("mediaDenied", Null)
  /\ AssistantFrame

\* the onopen callback of session s
OnOpen(s) ==
  /\ Quiet
  /\ s <= Len(assistant.sessions)
  /\ assistant.sessions[s] = "connecting"
  /\ assistant' = [assistant EXCEPT !.isActive = TRUE,
                                    !.isConnecting = FALSE,
                                    !.sessions[s] = "open"]
  /\ lastOp' = Op("sessionOpen", s)
  /\ AssistantFrame

\* the promise of session s resolves: sessionRef.current = await
\* sessionPromise; the callbacks queued on the promise can run after it
SessionResolved(s) ==
  /\ Quiet
  /\ s <= Len(assistant.sessions)
  /\ assistant.promises[s] = "pending"
  /\ assistant' = [assistant EXCEPT !.promises[s] = "resolved",
                                    !.sessionRef = s]
  /\ lastOp' = Op("sessionResolved", s)
  /\ AssistantFrame

\* the promise of session s is rejected: the catch of handleToggle
ConnectFail(s) ==
  /\ Quiet
  /\ s <= Len(assistant.sessions)
  /\ assistant.sessions[s] = "connecting"
  /\ assistant.promises[s] = "pending"
  /\ assistant' = [assistant EXCEPT !.isConnecting = FALSE,
                                    !.sessions[s] = "closed",
                                    !.promises[s] = "rejected"]
  /\ lastOp' = Op("connectFail", s)
  /\ AssistantFrame

\* handleToggle while active: close() of the session in sessionRef.current,
\* if there is one
ToggleOff ==
  /\ app = "live"
  /\ Quiet
  /\ assistant.isActive
  /\ assistant' =
       [assistant EXCEPT
          !.isActive = FALSE,
          !.sessions = IF assistant.sessionRef # 0
                            /\ assistant.sessions[assistant.sessionRef] = "open"
                         THEN [@ EXCEPT ![assistant.sessionRef] = "closing"]
                         ELSE @]
  /\ lastOp' = Op("toggleOff", Null)
  /\ AssistantFrame

\* callbacks that leave the flag alone when the session ends
OnCloseKeepsActive(s) ==
  /\ Quiet
  /\ s <= Len(assistant.sessions)
  /\ assistant.sessions[s] \in {"open", "closing"}
  /\ assistant' = [assistant EXCEPT !.sessions[s] = "closed"]
  /\ lastOp' = Op("sessionClose", s)
  /\ AssistantFrame

\* the onclose / onerror callback of session s
OnClose(s) ==
  /\ Quiet
  /\ s <= Len(assistant.sessions)
  /\ assistant.sessions[s] \in {"open", "closing"}
  /\ assistant' = [assistant EXCEPT !.isActive = FALSE,
                                    !.sessions[s] = "closed"]
  /\ lastOp' = Op("sessionClose", s)
  /\ AssistantFrame

\* the number of folders the calls of a message can add
Creations(msg) ==
  Cardinality({ k \in 1..Len(msg) : msg[k].name = "create_folder" })

\* onmessage with a toolCall, up to the for loop; the collaborator numbers
\* its function calls
OnMessage(s, msg) ==
  /\ Quiet
  /\ s <= Len(assistant.sessions)
  /\ assistant.sessions[s] = "open"
  /\ assistant.calls + Len(msg) <= MaxCalls
  /\ Len(state.folders) + Creations(msg) <= MaxFolders + 1
  /\ assistant' =
       [assistant EXCEPT
          !.loop = [k \in 1..Len(msg) |->
                      [id |-> assistant.calls + k, name |-> msg[k].name,
                       args |-> msg[k].args, session |-> s]],
          !.calls = @ + Len(msg)]
  /\ lastOp' = Op("message", s)
  /\ AssistantFrame

\* a loop that answers only the calls of the tools it declared
DispatchNextAnswersKnown(t) ==
  /\ assistant.loop # <<>>
  /\ LET fc == Head(assistant.loop) IN
       /\ handleVoiceCommand(fc.name, fc.args, t)
       /\ assistant' =
            [assistant EXCEPT
               !.loop = Tail(@),
               !.dispatched = Append(@, fc.id),
               !.microtasks = IF fc.name \in {"create_folder", "search_items"}
                                THEN Append(@, fc) ELSE @]

\* one turn of the for loop: onCommand(fc.name, fc.args), then
\* sessionPromise.then(...) queues the response
DispatchNext(t) ==
  /\ assistant.loop # <<>>
  /\ LET fc == Head(assistant.loop) IN
       /\ handleVoiceCommand(fc.name, fc.args, t)
       /\ assistant' =
            [assistant EXCEPT
               !.loop = Tail(@),
               !.dispatched = Append(@, fc.id),
               !.microtasks = Append(@, fc)]

\* the first callback queued on a resolved sessionPromise runs:
\* s.sendToolResponse(...)
SendToolResponse ==
  /\ assistant.loop = <<>>
  /\ Runnable # {}
  /\ LET first == CHOOSE k \in Runnable : \A j \in Runnable : k <= j
         fc == assistant.microtasks[first]
     IN assistant' =
          [assistant EXCEPT
             !.microtasks = removeAt(@, first),
             !.responses = Append(@, [id |-> fc.id, name |-> fc.name,
                                      status |-> "success",
                                      session |-> fc.session])]
  /\ lastOp' = Op("toolResponse", Null)
  /\ AssistantFrame

\* Both builds with their voice sessions: the live assistant, and the
\* offline build's speech recognition over an empty library.
NextSession ==
  \/ ToggleOn
  \/ MediaGranted
  \/ MediaDenied
  \/ \E s \in SessionIds : OnOpen(s)
  \/ \E s \in SessionIds : SessionResolved(s)
  \/ \E s \in SessionIds : ConnectFail(s)
  \/ ToggleOff
  \/ \E s \in SessionIds : OnClose(s)
  \/ \E s \in SessionIds, msg \in ToolMessages : OnMessage(s, msg)
  \/ \E t \in Clock : DispatchNext(t)
  \/ SendToolResponse
  \/ ToggleListening
  \/ ToggleLanguage
  \/ \E i \in RecognitionIds : OnStart(i)
  \/ \E i \in RecognitionIds, utterance \in Utterances, t \in Clock :
       VoiceResult(i, utterance, t)
  \/ \E i \in RecognitionIds : VoiceError(i)
  \/ \E i \in RecognitionIds : VoiceEnd(i)

\* a handler that was entered finishes, a microtask that can run runs, and
\* the promise of a session that did not fail is resolved
SessionFairness ==
  /\ WF_vars(\E t \in Clock : DispatchNext(t))
  /\ WF_vars(SendToolResponse)
  /\ \A s \in SessionIds : WF_vars(SessionResolved(s))

SpecSession == Init /\ [][NextSession]_vars /\ SessionFairness

\* --------------------------------------------------- the autosave indicator
\* The persistence effect with its indicator, over search edits.  Time is
\* counted in ticks of 200 ms; a timer fires at or after the tick it is due.

\* the delay of the indicator's timer: 800 ms offline, 1000 ms live
SaveDelay(a) == IF a = "offline" THEN 4 ELSE 5

\* an effect that sets a new timer without clearing the one before
SavingEffectKeepsTimer ==
  autosave' =
    [isSaving |-> TRUE,
     saveTimeoutRef |-> autosave.issued + 1,
     timers |-> autosave.timers
                  \cup { [id |-> autosave.issued + 1, left |-> SaveDelay(app)] },
     issued |-> autosave.issued + 1,
     sinceWrite |-> 0]

\* the indicator's part of the persistence effect: setIsSaving(true),
\* clearTimeout of the timer in saveTimeoutRef, setTimeout of a new one
SavingEffect ==
  autosave' =
    [isSaving |-> TRUE,
     saveTimeoutRef |-> autosave.issued + 1,
     timers |-> (IF autosave.saveTimeoutRef # 0
                   THEN { tm \in autosave.timers : tm.id # autosave.saveTimeoutRef }
                   ELSE autosave.timers)
                  \cup { [id |-> autosave.issued + 1, left |-> SaveDelay(app)] },
     issued |-> autosave.issued + 1,
     sinceWrite |-> 0]

\* the search box's onChange, the render and the whole persistence effect
SaveEdit(q) ==
  /\ autosave.issued < MaxTimers
  /\ SetState([state EXCEPT !.searchQuery = q])
  /\ SavingEffect
  /\ lastOp' = Op("ui", q)
  /\ UNCHANGED << app, assistant, edits, uiVars, uploadVars, voiceVars, now >>

\* 200 ms pass
Tick ==
  /\ autosave.sinceWrite <= SaveDelay(app)
  /\ autosave' =
       [autosave EXCEPT
          !.timers = { [id |-> tm.id, left |-> IF tm.left > 0 THEN tm.left - 1 ELSE 0] :
                       tm \in autosave.timers },
          !.sinceWrite = @ + 1]
  /\ lastOp' = Op("tick", Null)
  /\ KeepState
  /\ UNCHANGED << app, assistant, edits, uiVars, uploadVars, voiceVars, now >>

\* a due timer runs its callback: setIsSaving(false)
TimerFires(id) ==
  /\ \E tm \in autosave.timers :
       /\ tm.id = id
       /\ tm.left = 0
       /\ autosave' = [autosave EXCEPT !.isSaving = FALSE,
                                       !.timers = @ \ {tm}]
  /\ lastOp' = Op("saveTimer", id)
  /\ KeepState
  /\ UNCHANGED << app, assistant, edits, uiVars, uploadVars, voiceVars, now >>

\* after construction: the effect of the first render has run
InitSave ==
  /\ app \in Apps
  /\ state = defaultState(app)
  /\ filtered = filteredImages(state)
  /\ selectedImageId = Null
  /\ multiSelectMode = FALSE
  /\ batchSelectedIds = <<>>
  /\ isAnalyzing = FALSE
  /\ upload = IdleUpload
  /\ isListening = FALSE
  /\ recognition = IdleRecognition
  /\ now = 0
  /\ storage = JsonBlob(stringify(state))
  /\ wrote = TRUE
  /\ assistant = IdleAssistant
  /\ autosave = [isSaving |-> TRUE, saveTimeoutRef |-> 1,
                 timers |-> { [id |-> 1, left |-> SaveDelay(app)] },
                 issued |-> 1, sinceWrite |-> 0]
  /\ edits = 0
  /\ lastOp = Op("init", Null)

\* search edits, the passing of time, and in the live build tool calls of
\* an unknown name, whose updater returns the previous state
NextSave ==
  \/ \E q \in Queries : SaveEdit(q)
  \/ \E args \in ToolArgs : ToolCall("delete_universe", args, now)
  \/ Tick
  \/ \E id \in 1..MaxTimers : TimerFires(id)

SpecSave == InitSave /\ [][NextSave]_vars

\* =================================================================== claims
ImageIndices == 1..Len(state.images)
LastFolder(s) == s.folders[Len(s.folders)]
SameButFolder(img1, img2) ==
  [img1 EXCEPT !.folderId = Null] = [img2 EXCEPT !.folderId = Null]

\* the step was a folder-creation-and-move command
CreatedAndMoved == lastOp' = "createFolderAndMove"

\* the command turned exactly the images satisfying Chosen into members of
\* the new folder and left the folderId of every other image alone
MovedExactly(Chosen(_)) ==
  /\ Len(state'.images) = Len(state.images)
  /\ \A k \in ImageIndices :
       state'.images[k].folderId =
         IF Chosen(state.images[k]) THEN state'.currentFolderId
                                    ELSE state.images[k].folderId

\* C1: deleting a folder f other than "all" leaves no image with folderId f
\* and leaves currentFolderId different from f.
C1_DeleteFolderReassignsImages ==
  [][\A f \in FolderIds :
       DeleteFolder(f) =>
         /\ \A k \in 1..Len(state'.images) : state'.images[k].folderId # f
         /\ state'.currentFolderId # f]_vars

\* C2: in every reachable state currentFolderId is "all" or the id of a folder
\* present in folders.
C2_CurrentFolderExists ==
  state.currentFolderId = AllId \/ state.currentFolderId \in FolderIds

\* the folder that was being viewed has just been deleted
C2_Witness ==
  /\ lastOp = "deleteCurrentFolder"
  /\ state.currentFolderId = AllId
  /\ Len(state.images) > 0

\* C3: tier (i): with a non-empty batch selection at the time of the command,
\* exactly the images of the batch are moved into the new folder.
C3_BatchMovedExactly ==
  [][(CreatedAndMoved /\ Len(batchSelectedIds) > 0) =>
       MovedExactly(LAMBDA img : arrayIncludes(batchSelectedIds, img.id))]_vars

\* C4: tier (iii): with an empty batch selection and no open image, exactly
\* the images of the derived view (folder and search filter) are moved.
C4_VisibleMovedExactly ==
  [][(CreatedAndMoved /\ Len(batchSelectedIds) = 0 /\ ~truthy(selectedImageId)) =>
       MovedExactly(LAMBDA img : arrayIncludes(filtered, img))]_vars

\* C5: tier (ii): with an empty batch selection and an open image, exactly
\* that image is moved into the new folder.
C5_OpenImageMovedExactly ==
  [][(CreatedAndMoved /\ Len(batchSelectedIds) = 0 /\ truthy(selectedImageId)) =>
       /\ MovedExactly(LAMBDA img : img.id = selectedImageId)
       /\ \E k \in ImageIndices : state.images[k].id = selectedImageId]_vars

\* C6: a folder-creation-and-move command appends exactly one folder, makes
\* it the current folder, clears the batch selection, multi-select mode and
\* the open image, and keeps searchQuery and the order and count of images.
C6_CreateAndMoveFrame ==
  [][CreatedAndMoved =>
       /\ Len(state'.folders) = Len(state.folders) + 1
       /\ SubSeq(state'.folders, 1, Len(state.folders)) = state.folders
       /\ state'.currentFolderId = LastFolder(state').id
       /\ batchSelectedIds' = <<>>
       /\ multiSelectMode' = FALSE
       /\ selectedImageId' = Null
       /\ state'.searchQuery = state.searchQuery
       /\ Len(state'.images) = Len(state.images)
       /\ \A k \in ImageIndices :
            SameButFolder(state'.images[k], state.images[k])]_vars

\* a command has just moved one of two images out of a multi-select session
C6_Witness ==
  /\ lastOp = "createFolderAndMove"
  /\ Len(state.images) = 2
  /\ \E k \in ImageIndices : state.images[k].folderId = state.currentFolderId
  /\ \E k \in ImageIndices : state.images[k].folderId # state.currentFolderId
  /\ truthy(state.searchQuery)

FoldersNamed(s, n) == { k \in 1..Len(s.folders) : s.folders[k].name = n }

\* C7: create_folder {name} changes nothing when a folder of that name
\* exists, appends one folder of that name otherwise, and in both cases
\* leaves exactly one folder of that name.
C7_CreateFolderIdempotent ==
  [][\A args \in ToolArgs, t \in Clock :
       (lastOp' \in {"create_folder", "create_folder:exists"}
          /\ ToolCall("create_folder", args, t)) =>
         LET n == getArg(args, "name") IN
           /\ IF FoldersNamed(state, n) # {}
                THEN state' = state
                ELSE /\ Len(state'.folders) = Len(state.folders) + 1
                     /\ SubSeq(state'.folders, 1, Len(state.folders)) = state.folders
                     /\ LastFolder(state').name = n
                     /\ state'.images = state.images
                     /\ state'.currentFolderId = state.currentFolderId
                     /\ state'.searchQuery = state.searchQuery
           /\ Cardinality(FoldersNamed(state', n)) = 1]_vars

\* the call has just been repeated for a folder that exists
C7_Witness ==
  /\ lastOp = "create_folder:exists"
  /\ Cardinality(FoldersNamed(state, <<"T">>)) = 1
  /\ Len(state.folders) = 3

\* C8: a tool call of an unknown name changes neither the AppState nor the
\* image selection.
C8_UnknownToolIsNoOp ==
  [][\A args \in ToolArgs, t \in Clock :
       (lastOp' = "delete_universe" /\ ToolCall("delete_universe", args, t)) =>
         /\ state' = state
         /\ selectedImageId' = selectedImageId]_vars

\* an unknown call has just arrived with an image open
C8_Witness ==
  /\ lastOp = "delete_universe"
  /\ truthy(selectedImageId)
  /\ Len(state.folders) > 1
  /\ truthy(state.searchQuery)

\* C9: search_items {query} sets searchQuery to query, currentFolderId to
\* "all" and closes the open image; images and folders are unchanged.
C9_SearchItems ==
  [][\A args \in ToolArgs, t \in Clock :
       (lastOp' = "search_items" /\ ToolCall("search_items", args, t)) =>
         /\ state'.searchQuery = getArg(args, "query")
         /\ state'.currentFolderId = AllId
         /\ selectedImageId' = Null
         /\ state'.images = state.images
         /\ state'.folders = state.folders]_vars

\* a search has just been issued with folders and images present
C9_Witness ==
  /\ lastOp = "search_items"
  /\ state.searchQuery = ChangguiWendang
  /\ Len(state.folders) > 1
  /\ Len(state.images) > 0

\* s contains q, ignoring case: at some offset every character agrees
ContainsIgnoringCase(s, q) ==
  \E off \in 0..(Len(s) - Len(q)) :
    \A k \in 1..Len(q) : toLowerCaseChar(s[off + k]) = toLowerCaseChar(q[k])

Visible(img) ==
  /\ state.currentFolderId = AllId \/ img.folderId = state.currentFolderId
  /\ \/ state.searchQuery = <<>>
     \/ ContainsIgnoringCase(img.name, state.searchQuery)
     \/ ContainsIgnoringCase(img.category, state.searchQuery)
     \/ ContainsIgnoringCase(img.description, state.searchQuery)
     \/ \E k \in 1..Len(img.ocrTexts) :
          ContainsIgnoringCase(img.ocrTexts[k].text, state.searchQuery)

\* C10: the derived view is the subsequence of images, in order, that are in
\* the current folder (or any folder under "all") and match the search query
\* on name, category, description or an OCR text, ignoring case.
C10_VisibleImages == filtered = SelectSeq(state.images, Visible)

\* a view that shows an image found only through an OCR text and hides another
C10_Witness ==
  /\ state.searchQuery = <<"f", "G">>
  /\ state.currentFolderId = ViewFolder
  /\ Len(filtered) = 1
  /\ Len(state.images) = 2
  /\ filtered[1] = state.images[2]
  /\ filtered[1].name = <<"x">>
  /\ filtered[1].description = <<>>
  /\ state.images[1].folderId = ViewFolder

InBatch(img) == \E k \in 1..Len(batchSelectedIds) : batchSelectedIds[k] = img.id

\* C11: a confirmed batch delete removes, in one transition, every image
\* whose id is in the batch and no other image, keeps the order of the rest,
\* empties the batch, leaves multi-select mode, and changes neither folders
\* nor currentFolderId nor searchQuery.
C11_BatchDeleteRemovesBatch ==
  [][BatchDelete(TRUE) =>
       /\ state'.images = SelectSeq(state.images, LAMBDA img : ~InBatch(img))
       /\ batchSelectedIds' = <<>>
       /\ multiSelectMode' = FALSE
       /\ state'.folders = state.folders
       /\ state'.currentFolderId = state.currentFolderId
       /\ state'.searchQuery = state.searchQuery]_vars

\* one of two images has just been deleted as a batch
C11_Witness ==
  /\ lastOp = "batchDelete"
  /\ Len(state.images) = 1
  /\ Len(state.folders) > 1
  /\ truthy(state.searchQuery)

\* C12: a declined batch delete changes neither images nor the batch nor
\* multi-select mode and triggers no persistence write; an image leaves
\* images only in a batch delete that was confirmed.
C12_BatchDeleteNeedsConfirmation ==
  [][/\ BatchDelete(FALSE) =>
          /\ state' = state
          /\ batchSelectedIds' = batchSelectedIds
          /\ multiSelectMode' = multiSelectMode
          /\ ~wrote'
          /\ storage' = storage
     /\ Len(state'.images) < Len(state.images) => BatchDelete(TRUE)]_vars

\* the user has just declined the deletion of a batch
C12_Witness ==
  /\ lastOp = "batchDeleteDeclined"
  /\ ~wrote
  /\ multiSelectMode
  /\ Len(batchSelectedIds) = 2
  /\ Len(state.images) = 2

\* a stored string that does not hold an AppState
IsAppState(value) ==
  DOMAIN value = {"images", "folders", "currentFolderId", "searchQuery"}

InvalidBlob(saved) == saved.kind # "json" \/ ~IsAppState(saved.value)

\* C13: at startup an absent, unparseable or otherwise invalid stored blob
\* gives the default tree as the initial state, and no fatal error.
C13_InvalidBlobGivesDefault ==
  [][(Mount /\ InvalidBlob(storage)) =>
       /\ lastOp' # "fatal"
       /\ state' = defaultState(app)]_vars

\* C14: after every transition the store holds the serialization of the
\* whole current AppState, and deserializing it gives a tree identical to
\* the AppState in memory.
C14_StoreRoundTrips ==
  /\ storage = JsonBlob(stringify(state))
  /\ storage.value = state

\* an upload leaves the pipeline in this step
UploadEnds == upload.pc = "inflight" /\ upload'.pc = "idle"

\* C15: on every exit path of an upload (analysis success, analysis failure,
\* file-read failure) isAnalyzing is cleared, and a path other than success
\* adds no image.
C15_UploadAlwaysClearsFlag ==
  [][UploadEnds =>
       /\ ~isAnalyzing'
       /\ lastOp' # "uploadSuccess" => state'.images = state.images]_vars

\* C16: a successful upload prepends exactly one image, whose folderId is the
\* folder that was active when the upload was started.
C16_UploadPrependsIntoActiveFolder ==
  [][/\ \A fileName \in FileNames :
          UploadStart(fileName) => upload'.folderId = state.currentFolderId
     /\ \A analysis \in Analyses, t \in Clock :
          UploadSuccess(analysis, t) =>
            /\ Len(state'.images) = Len(state.images) + 1
            /\ SubSeq(state'.images, 2, Len(state'.images)) = state.images
            /\ state'.images[1].folderId = upload.folderId
            /\ state'.images[1].name = upload.name]_vars

\* C17: the ids of the images are pairwise distinct in every reachable state.
C17_ImageIdsDistinct ==
  \A j, k \in ImageIndices : state.images[j].id = state.images[k].id => j = k

\* C18: folders always has the folder with id "all" as its first element.
C18_AllFolderFirst ==
  /\ Len(state.folders) >= 1
  /\ state.folders[1].id = AllId
  /\ \A k \in 2..Len(state.folders) : state.folders[k].id # AllId

\* folders have been created and one of them has just been deleted
C18_Witness ==
  /\ lastOp \in {"deleteFolder", "deleteCurrentFolder"}
  /\ Len(state.folders) = 2
  /\ state.folders[2].id # AllId

FolderNameTaken(n) == \E k \in 1..Len(state.folders) : state.folders[k].name = n

\* C19: a create-folder command whose folder name is empty, missing or the
\* name of an existing folder leaves the AppState unchanged, whether it
\* arrives as an utterance or as a create_folder tool call.
C19_InvalidCreateFolderAbsorbed ==
  [][/\ \A i \in RecognitionIds, utterance \in Utterances, t \in Clock :
          LET transcript == trim(utterance) IN
            (/\ VoiceResult(i, utterance, t)
             /\ ~isSwitchView(transcript)
             /\ ~isSwitchLanguage(transcript)
             /\ isCreateFolder(transcript)
             /\ \/ ~truthy(folderNameOf(transcript))
                \/ FolderNameTaken(folderNameOf(transcript)))
            => state' = state
     /\ \A args \in ToolArgs, t \in Clock :
          (/\ ToolCall("create_folder", args, t)
           /\ \/ ~truthy(getArg(args, "name"))
              \/ FolderNameTaken(getArg(args, "name")))
          => state' = state]_vars

\* the command phrases as the dispatcher's grammar names them, looked for in
\* the lowercase-normalized utterance
SaysSwitchView(utterance) ==
  \/ includes(toLowerCase(trim(utterance)), <<"qiehuan shitu">>)
  \/ includes(toLowerCase(trim(utterance)), <<"switch view">>)

StartsWithCreateFolder(utterance) ==
  \/ startsWith(toLowerCase(trim(utterance)), <<"chuangjian wenjianjia">>)
  \/ startsWith(toLowerCase(trim(utterance)), <<"create folder">>)

\* C20: freeform dispatch is first-match-wins: an utterance that starts with
\* a create-folder phrase and also contains a switch-view phrase is handled
\* as switch view only; it creates no folder and leaves searchQuery alone.
C20_FirstMatchWins ==
  [][\A i \in RecognitionIds, utterance \in DispatchUtterances, t \in Clock :
       (/\ VoiceResult(i, utterance, t)
        /\ StartsWithCreateFolder(utterance)
        /\ SaysSwitchView(utterance))
       => /\ lastOp' = "voiceSwitchView"
          /\ state' = state]_vars

SaysSwitchLanguage(utterance) ==
  \/ includes(toLowerCase(trim(utterance)), <<"qiehuan yuyan">>)
  \/ includes(toLowerCase(trim(utterance)), <<"switch language">>)

MatchesNoCommand(utterance) ==
  /\ ~SaysSwitchView(utterance)
  /\ ~SaysSwitchLanguage(utterance)
  /\ ~StartsWithCreateFolder(utterance)

\* C21: an utterance that matches none of the command phrases sets
\* searchQuery to the whole transcript and closes the open image
\* (selectedImageId becomes null); images, folders and currentFolderId are
\* unchanged.
C21_FreeformSearchClearsSelection ==
  [][\A i \in RecognitionIds, utterance \in Utterances, t \in Clock :
       (VoiceResult(i, utterance, t) /\ MatchesNoCommand(utterance)) =>
         /\ state'.searchQuery = trim(utterance)
         /\ selectedImageId' = Null
         /\ state'.images = state.images
         /\ state'.folders = state.folders
         /\ state'.currentFolderId = state.currentFolderId]_vars

CallIds == 1..MaxCalls

\* the calls of onCommand and the responses sent for the function call c
Dispatches(c) ==
  { k \in 1..Len(assistant.dispatched) : assistant.dispatched[k] = c }
Acks(c) ==
  { k \in 1..Len(assistant.responses) : assistant.responses[k].id = c }

\* C22: every tool call received, recognized or not, is dispatched exactly
\* once and is eventually acknowledged with exactly one status response
\* carrying its id; the calls are dispatched in the order they appear.
C22_ToolCallsAcknowledged ==
  /\ [](\A c \in CallIds :
          /\ Cardinality(Dispatches(c)) <= 1
          /\ Cardinality(Acks(c)) <= 1
          /\ Acks(c) # {} => Dispatches(c) # {}
          /\ \A k \in Acks(c) : assistant.responses[k].status = "success")
  /\ [](assistant.dispatched = [k \in 1..Len(assistant.dispatched) |-> k])
  /\ \A c \in CallIds :
       (assistant.calls >= c) ~>
         (Cardinality(Dispatches(c)) = 1 /\ Cardinality(Acks(c)) = 1)

\* a message of two calls, one of them of an unknown tool, has been answered
C22_Witness ==
  /\ Quiet
  /\ assistant.calls = MaxCalls
  /\ Len(assistant.responses) = MaxCalls
  /\ \E k \in 1..Len(assistant.responses) :
       assistant.responses[k].name = "delete_universe"
  /\ \E k \in 1..Len(assistant.responses) :
       assistant.responses[k].name = "create_folder"

\* the live session s stops running in this step
SessionEnds(s) ==
  /\ s <= Len(assistant.sessions)
  /\ assistant.sessions[s] = "open"
  /\ assistant'.sessions[s] # "open"

\* a recognition object ends in this step
RecognitionEnds == Len(recognition'.live) < Len(recognition.live)

\* a recognition object reports an error in this step
RecognitionErrors ==
  /\ Len(recognition'.live) = Len(recognition.live)
  /\ \E i \in 1..Len(recognition.live) :
       /\ recognition.live[i].pc # "errored"
       /\ recognition'.live[i].pc = "errored"

SessionRunning ==
  \E s \in 1..Len(assistant.sessions) : assistant.sessions[s] = "open"

\* a recognition object has started and has neither failed nor ended
RecognitionRunning ==
  \E i \in 1..Len(recognition.live) :
    recognition.live[i].pc \in {"started", "delivered"}

\* C23: whenever the voice session closes or errors (live session or offline
\* speech recognition) the listening/active flag is false afterwards, and
\* the flag is never true while no session is running.
C23_FlagResetOnSessionEnd ==
  /\ [](assistant.isActive => SessionRunning)
  /\ [](isListening => RecognitionRunning)
  /\ [][/\ \A s \in SessionIds :
             (SessionEnds(s) \/ OnClose(s)) => ~assistant'.isActive
        /\ (RecognitionEnds \/ RecognitionErrors) => ~isListening']_vars

\* the offline build after the late end of a recognition, with the
\* recognition started after it, the one in recognitionRef.current, still
\* running
C23_Witness ==
  /\ app = "offline"
  /\ lastOp = "voiceEnd"
  /\ ~isListening
  /\ Len(recognition.live) = 1
  /\ recognition.live[1].pc = "started"
  /\ recognition.ref = 1

\* C24: the autosave indicator is debounced: it is on right after every
\* write; a write cancels the pending timer and starts a new one with the
\* full delay; at most one timer is pending at any time; and the indicator
\* turns off only when the full delay has passed since the last write.
C24_AutosaveDebounced ==
  /\ [](Cardinality(autosave.timers) <= 1)
  /\ [][wrote' =>
          /\ autosave'.isSaving
          /\ autosave'.timers =
               { [id |-> autosave'.saveTimeoutRef, left |-> SaveDelay(app)] }
          /\ \A tm \in autosave.timers : tm.id # autosave'.saveTimeoutRef]_vars
  /\ [][(autosave.isSaving /\ ~autosave'.isSaving) =>
          /\ ~wrote'
          /\ autosave.sinceWrite >= SaveDelay(app)
          /\ autosave'.timers = {}]_vars

\* the indicator has gone off after a write that restarted a running timer
C24_Witness ==
  /\ lastOp = "saveTimer"
  /\ ~autosave.isSaving
  /\ autosave.issued = MaxTimers
  /\ autosave.timers = {}
  /\ autosave.sinceWrite = SaveDelay(app)
  /\ state.searchQuery = ChangguiWendang

\* C25: at most one upload is in flight: isAnalyzing is true for as long as
\* an upload is in flight, an upload is accepted only while isAnalyzing is
\* false and nothing is in flight, and an upload in flight is never replaced.
C25_SingleUploadInFlight ==
  /\ [](upload.pc = "inflight" => isAnalyzing)
  /\ [][/\ \A fileName \in FileNames :
             UploadStart(fileName) =>
               (~isAnalyzing /\ upload.pc = "idle" /\ isAnalyzing')
        /\ (upload.pc = "inflight" /\ upload'.pc = "inflight") =>
             upload' = upload]_vars

\* a second upload is in flight after the first one completed
C25_Witness ==
  /\ upload.pc = "inflight"
  /\ isAnalyzing
  /\ Len(state.images) = 1
  /\ lastOp = "ui"

\* C26: the ids of the folders are pairwise distinct in every reachable
\* state, also when several folder-creating commands are processed without
\* the clock advancing between them.
C26_FolderIdsDistinct ==
  \A j, k \in 1..Len(state.folders) :
    state.folders[j].id = state.folders[k].id => j = k

\* C27: the completion of an upload prepends the new image to the images of
\* that moment and changes nothing else, so every change made while the
\* analysis was in flight is preserved.
C27_UploadCompletionPreservesState ==
  [][(UploadEnds /\ lastOp' = "uploadSuccess") =>
       /\ Len(state'.images) = Len(state.images) + 1
       /\ state' = [state EXCEPT !.images = <<state'.images[1]>> \o @]
       /\ selectedImageId' = selectedImageId
       /\ multiSelectMode' = multiSelectMode
       /\ batchSelectedIds' = batchSelectedIds]_vars

\* an upload of the offline build has completed after, during its flight,
\* the category of the first image was edited, a voice command created a
\* folder and moved that image into it, and a search was typed
C27_Witness ==
  /\ app = "offline"
  /\ lastOp = "uploadSuccess"
  /\ edits > 0
  /\ Len(state.images) = 2
  /\ Len(state.folders) = 2
  /\ state.images[1].folderId = AllId
  /\ state.images[1].category = ChangguiWendang
  /\ state.images[2].category \in Categories
  /\ state.currentFolderId = LastFolder(state).id
  /\ state.images[2].folderId = state.currentFolderId
  /\ truthy(state.searchQuery)

\* C28: the image a completing upload inserts never references a missing
\* folder: at the moment it is prepended its folderId is "all" or the id of
\* a folder present in folders, also when the folder that was active at
\* upload start was deleted during the flight.
C28_UploadedImageFolderExists ==
  [][\A analysis \in Analyses, t \in Clock :
       UploadSuccess(analysis, t) =>
         \/ state'.images[1].folderId = AllId
         \/ \E k \in 1..Len(state'.folders) :
              state'.folders[k].id = state'.images[1].folderId]_vars

\* C29: a voice create-folder command chooses the images to move from the
\* batch selection and the open image as they are when the transcript is
\* delivered, not as they were when listening was started.
C29_MoveUsesCurrentSelection ==
  [][CreatedAndMoved =>
       state' = createFolderAndMove(state, state'.currentFolderId,
                                    LastFolder(state').name,
                                    batchSelectedIds, selectedImageId)]_vars

\* C30: in every reachable state selectedImageId is null or the id of an
\* image present in images: no sequence of handlers deletes the open image
\* while leaving it selected.
C30_SelectedImageExists ==
  selectedImageId = Null \/ hasSelectedImage(state, selectedImageId)

\* a batch has just been deleted and the image left over is hidden by the
\* current folder or search
C30_Witness ==
  /\ lastOp = "batchDelete"
  /\ selectedImageId = Null
  /\ ~multiSelectMode
  /\ Len(state.images) = 1
  /\ filtered = <<>>

====
